---- MODULE Spec2Model ----
(***************************************************************************)
(* The capture/session state machine of src/index.js: the /record and      *)
(* /stop slash commands, the receiver.speaking 'start' and 'end' handlers, *)
(* the debounce timers (setTimeout), the finalize callback and the         *)
(* setImmediate dispatch.  The handlers are async functions: each `await`  *)
(* is a point where the handler is suspended and any other handler may     *)
(* run, so every handler is cut into one action per run-to-completion      *)
(* segment and the suspended handlers are part of the state.               *)
(***************************************************************************)
EXTENDS Integers, Sequences, FiniteSets, TLC

\* ---------------------------------------------------------------- bounds
MaxTicks == 2            \* clock horizon of Spec, in ticks
MaxTurns == 2            \* start handlers of Spec that get past the "already recorded" check
MaxStops == 1            \* /stop handlers of Spec suspended at the same time
MaxSessions == 1         \* /record commands of Spec that start a session
CmdTurns == 1            \* the same three bounds, of SpecCommands
CmdStops == 1
CmdSessions == 1
SpeakTicks == 2          \* clock horizon of SpecSpeak, in ticks
SpeakTurns == 2          \* start handlers of SpecSpeak that get past the check
SoloTicks == 6           \* clock horizon of SpecSolo, in ticks
SoloTurns == 2           \* start handlers of SpecSolo that get past the check
ScenTicks == 11          \* clock horizon of SpecScenario, in ticks
TurnTicks == 2           \* clock horizon of SpecTurns, in ticks
TurnTurns == 2           \* start handlers of SpecTurns that get past the check
TurnStops == 1           \* /stop handlers of SpecTurns suspended at the same time
RearmTurns == 3          \* start handlers of SpecRearm that get past the check
RearmTicks == 2          \* clock horizon of SpecRearm, in ticks
LiveTicks == 2           \* the speaking events of SpecLive fall within this many ticks
LiveTurns == 2           \* start handlers of SpecLive that get past the check
SessSessions == 2        \* /record commands of SpecSessions that start a session
SessStops == 2           \* /stop handlers of SpecSessions suspended at the same time
SessTurns == 1           \* start handlers of SpecSessions that get past the check
SessTicks == 2           \* clock horizon of SpecSessions, in ticks

\* ------------------------------------------------------ program constants
DebounceMs == 1000       \* setTimeout(..., 1000)

\* The clock's granularity: half a debounce period, so that an event can fall
\* strictly inside one.
TickMs == DebounceMs \div 2
\* The speakers in the voice channel.
Users == {1, 2}
None == 0                \* an absent map entry, a null reference
NoTime == -1             \* a timestamp not taken yet (endTime: null)

VARIABLES
  now,               \* Date.now(), in ms
  isRecording,       \* let isRecording
  recordingSession,  \* let recordingSession: an index of sessions, or None (null)
  sessions,          \* the session objects ever allocated by /record
  connection,        \* let connection: the session it was joined for, or None
  receiver,          \* the session whose Ready callback registered the speaking handlers, or None
  userStreams,       \* const userStreams: userId -> an index of turns, or None
  endTimers,         \* const endTimers: userId -> a timer id, or None
  timers,            \* the setTimeout callbacks scheduled and neither fired nor cleared
  turns,             \* the info objects ever stored in userStreams, with their streams
  starts,            \* 'start' handlers suspended at an await
  fires,             \* endTimer callbacks suspended at await client.users.fetch
  dispatches,        \* setImmediate tasks: convert, then transcribe
  stops,             \* /stop handlers suspended at an await
  hist,              \* per user: the speaking events received so far (history)
  last               \* the last command or event handled and its outcome (history)

vars == <<now, isRecording, recordingSession, sessions, connection, receiver,
          userStreams, endTimers, timers, turns, starts, fires, dispatches,
          stops, hist, last>>

sessionVars == <<isRecording, recordingSession, sessions, connection, receiver>>
captureVars == <<userStreams, endTimers, timers, turns, starts, fires>>

\* ---------------------------------------------------------------- helpers
TurnIds == 1..Len(turns)
SessionIds == 1..Len(sessions)

\* The smallest positive number not in S: a fresh object identity.
FreshId(S) == CHOOSE n \in 1..(Cardinality(S) + 1) : n \notin S

Event(op, user, res) == [op |-> op, user |-> user, res |-> res]

NoHist == [first |-> NoTime, last |-> NoTime, kind |-> "none"]
\* The history of a user whose events are not recorded.
OffHist == [first |-> NoTime, last |-> NoTime, kind |-> "off"]

\* An event of `kind` for a user at `now`: a quiet period of DebounceMs or more
\* since the user's previous event starts a new burst.
HistAfter(h, kind) ==
  LET fresh == h.last = NoTime \/ now - h.last >= DebounceMs
  IN IF h.kind = "off" THEN h ELSE
     [first |-> IF kind = "start" /\ (fresh \/ h.first = NoTime) THEN now
                ELSE IF fresh THEN NoTime ELSE h.first,
      last |-> now,
      kind |-> kind]

\* Mutant: the timer is left pending.
ClearTimeout_Forgotten(ts, id) == ts

\* clearTimeout(id): a no-op for a timer that has fired or was cleared.
ClearTimeout(ts, id) == {t \in ts : t.id # id}

\* Mutant: the entry stays in the map.
DeleteEntry_Kept(m, u) == m

\* Map.delete(userId)
DeleteEntry(m, u) == [m EXCEPT ![u] = None]

\* Mutant: the streams are left open.
CloseStreams_Skipped(tt, ids) == tt

\* writeStream.end() and opusStream.destroy() of the listed turns.
CloseStreams(tt, ids) ==
  [i \in DOMAIN tt |-> IF i \in ids THEN [tt[i] EXCEPT !.open = FALSE] ELSE tt[i]]

\* ------------------------------------------------------------------- Init
Init ==
  /\ now = 0
  /\ isRecording = FALSE
  /\ recordingSession = None
  /\ sessions = <<>>
  /\ connection = None
  /\ receiver = None
  /\ userStreams = [u \in Users |-> None]
  /\ endTimers = [u \in Users |-> None]
  /\ timers = {}
  /\ turns = <<>>
  /\ starts = {}
  /\ fires = {}
  /\ dispatches = {}
  /\ stops = {}
  /\ hist = [u \in Users |-> OffHist]
  /\ last = Event("init", None, "ok")

\* ---------------------------------------------------------------- /record
\* interactionCreate, commandName 'record'.  ch = None: the member is in no
\* voice channel.
NewSession(ch) ==
  [sessionId |-> now, startTime |-> now, endTime |-> NoTime,
   channelName |-> ch, transcriptions |-> <<>>]

\* Mutant: the guard is missing.
RecordRejected_Never == FALSE

\* if (isRecording)
RecordRejected == isRecording

RecordCommand(auth, ch) ==
  /\ UNCHANGED <<now, captureVars, dispatches, stops, hist>>
  /\ IF ~auth THEN
       /\ last' = Event("record", None, "Unauthorized")
       /\ UNCHANGED sessionVars
     ELSE IF RecordRejected THEN
       /\ last' = Event("record", None, "AlreadyRecording")
       /\ UNCHANGED sessionVars
     ELSE IF ch = None THEN
       /\ last' = Event("record", None, "NoVoiceChannel")
       /\ UNCHANGED sessionVars
     ELSE
       /\ isRecording' = TRUE
       /\ sessions' = Append(sessions, NewSession(ch))
       /\ recordingSession' = Len(sessions) + 1
       /\ connection' = Len(sessions) + 1
       /\ receiver' = None
       /\ last' = Event("record", None, "Started")

\* connection.on(VoiceConnectionStatus.Ready): registers the speaking handlers,
\* whose closure holds the sessionId of the /record that joined.
ConnectionReady ==
  /\ connection # None
  /\ receiver # connection
  /\ receiver' = connection
  /\ last' = Event("ready", None, "ok")
  /\ UNCHANGED <<now, isRecording, recordingSession, sessions, connection,
                 captureVars, dispatches, stops, hist>>

\* ------------------------------------------- receiver.speaking.on('start')
\* if (endTimers.has(userId))
PendingEnd(u) == endTimers[u] # None

\* Mutant: the guard is missing.
AlreadyRecorded_Never(u) == FALSE

\* if (userStreams.has(userId))
AlreadyRecorded(u) == userStreams[u] # None

\* The handler up to its first await (client.users.fetch), or to its return.
SpeakingStart(u) ==
  /\ receiver # None
  /\ hist' = [hist EXCEPT ![u] = HistAfter(@, "start")]
  /\ UNCHANGED <<now, sessionVars, userStreams, turns, fires, dispatches, stops>>
  /\ IF ~isRecording THEN
       /\ last' = Event("start", u, "NotRecording")
       /\ UNCHANGED <<endTimers, timers, starts>>
     ELSE
       /\ IF PendingEnd(u) THEN
            /\ timers' = ClearTimeout(timers, endTimers[u])
            /\ endTimers' = [endTimers EXCEPT ![u] = None]
          ELSE UNCHANGED <<endTimers, timers>>
       /\ IF AlreadyRecorded(u) THEN
            /\ last' = Event("start", u,
                         IF PendingEnd(u) THEN "Resumed" ELSE "Continued")
            /\ UNCHANGED starts
          ELSE
            /\ starts' = starts \cup
                 {[h |-> FreshId({s.h : s \in starts}), user |-> u,
                   session |-> receiver, pc |-> "fetch", ts |-> NoTime]}
            /\ last' = Event("start", u, "Setup")

\* Mutant: the catch clears the whole map.
StartCatch_All(u) == [v \in Users |-> None]

\* catch (error) of the start handler: if (userStreams.has(userId)) userStreams.delete(userId)
StartCatch(u) == [userStreams EXCEPT ![u] = None]

\* await client.users.fetch(userId) settles; const timestamp = Date.now(); then
\* the handler is suspended at await mkdir.
StartFetched(s, ok) ==
  /\ s \in starts
  /\ s.pc = "fetch"
  /\ UNCHANGED <<now, sessionVars, endTimers, timers, turns, fires, dispatches,
                 stops, hist>>
  /\ IF ok THEN
       /\ starts' = (starts \ {s}) \cup {[s EXCEPT !.pc = "mkdir", !.ts = now]}
       /\ UNCHANGED userStreams
       /\ last' = Event("startFetched", s.user, "ok")
     ELSE
       /\ starts' = starts \ {s}
       /\ userStreams' = StartCatch(s.user)
       /\ last' = Event("startFetched", s.user, "Failed")

\* The info object of userStreams.set, with the streams it holds: open is the
\* write stream (and the opus subscription) not yet ended.  lastEnd is history:
\* the time of the last 'end' event received while the object was in the map.
NewTurn(s) ==
  [user |-> s.user, session |-> s.session, startTime |-> s.ts, open |-> TRUE,
   lastEnd |-> NoTime, duration |-> NoTime]

\* await mkdir settles; createWriteStream, receiver.subscribe, userStreams.set.
StartMkdirDone(s, ok) ==
  /\ s \in starts
  /\ s.pc = "mkdir"
  /\ starts' = starts \ {s}
  /\ UNCHANGED <<now, sessionVars, endTimers, timers, fires, dispatches, stops, hist>>
  /\ IF ok THEN
       /\ turns' = Append(turns, NewTurn(s))
       /\ userStreams' = [userStreams EXCEPT ![s.user] = Len(turns) + 1]
       /\ last' = Event("startDone", s.user, "Recording")
     ELSE
       /\ userStreams' = StartCatch(s.user)
       /\ UNCHANGED turns
       /\ last' = Event("startDone", s.user, "Failed")

\* --------------------------------------------- receiver.speaking.on('end')
\* Mutant: the guard is missing.
NoActiveRecording_Never(u) == FALSE

\* const info = userStreams.get(userId); if (!info)
NoActiveRecording(u) == userStreams[u] = None

\* setTimeout(callback, 1000) and endTimers.set(userId, endTimer), after the
\* clearTimeout of the timer registered before.  turn is history: the info
\* object in the map when the timer was armed (the callback reads the map again).
ArmTimer(u) ==
  LET id == FreshId({t.id : t \in timers} \cup {endTimers[v] : v \in Users})
  IN /\ timers' = ClearTimeout(timers, endTimers[u]) \cup
                    {[id |-> id, user |-> u, deadline |-> now + DebounceMs,
                      turn |-> userStreams[u]]}
     /\ endTimers' = [endTimers EXCEPT ![u] = id]

SpeakingEnd(u) ==
  /\ receiver # None
  /\ hist' = [hist EXCEPT ![u] = HistAfter(@, "end")]
  /\ UNCHANGED <<now, sessionVars, userStreams, starts, fires, dispatches, stops>>
  /\ IF ~isRecording THEN
       /\ last' = Event("end", u, "NotRecording")
       /\ UNCHANGED <<endTimers, timers, turns>>
     ELSE IF NoActiveRecording(u) THEN
       /\ last' = Event("end", u, "Ignored")
       /\ UNCHANGED <<endTimers, timers, turns>>
     ELSE
       /\ ArmTimer(u)
       /\ turns' = [turns EXCEPT ![userStreams[u]].lastEnd = now]
       /\ last' = Event("end", u, "Armed")

\* ------------------------------------------------------ endTimer callback
\* The callback up to await client.users.fetch: it closes the streams of the
\* info object now in the map and deletes both map entries.
TimerFire(t) ==
  /\ t \in timers
  /\ now >= t.deadline
  /\ timers' = timers \ {t}
  /\ endTimers' = [endTimers EXCEPT ![t.user] = None]
  /\ UNCHANGED <<now, sessionVars, starts, dispatches, stops, hist>>
  /\ LET cur == userStreams[t.user] IN
     IF cur = None THEN
       /\ last' = Event("fire", t.user, "NoRecording")
       /\ UNCHANGED <<userStreams, turns, fires>>
     ELSE
       /\ turns' = CloseStreams(turns, {cur})
       /\ userStreams' = DeleteEntry(userStreams, t.user)
       /\ fires' = fires \cup {[turn |-> cur, user |-> t.user]}
       /\ last' = Event("fire", t.user, "Ended")

\* const duration = Date.now() - currentInfo.startTime
Duration(turn) == now - turns[turn].startTime

\* await client.users.fetch settles: the duration is logged and the dispatch is
\* queued with setImmediate; or the catch deletes both map entries of the user.
FireFetched(f, ok) ==
  /\ f \in fires
  /\ fires' = fires \ {f}
  /\ UNCHANGED <<now, sessionVars, timers, starts, stops, hist>>
  /\ IF ok THEN
       /\ turns' = [turns EXCEPT ![f.turn].duration = Duration(f.turn)]
       /\ dispatches' = dispatches \cup
            {[turn |-> f.turn, pc |-> "convert", sessionData |-> None]}
       /\ UNCHANGED <<userStreams, endTimers>>
       /\ last' = Event("fireFetched", f.user, "Dispatched")
     ELSE
       /\ userStreams' = [userStreams EXCEPT ![f.user] = None]
       /\ endTimers' = [endTimers EXCEPT ![f.user] = None]
       /\ UNCHANGED <<turns, dispatches>>
       /\ last' = Event("fireFetched", f.user, "Failed")

\* ---------------------------------------------------- setImmediate dispatch
\* await convertPcmToWav settles; transcribeAndAddToSession is called with the
\* session object recordingSession names at that moment.
ConvertDone(d, ok) ==
  /\ d \in dispatches
  /\ d.pc = "convert"
  /\ dispatches' = (dispatches \ {d}) \cup
       (IF ok THEN {[d EXCEPT !.pc = "transcribe", !.sessionData = recordingSession]}
        ELSE {})
  /\ last' = Event("convert", turns[d.turn].user, IF ok THEN "ok" ELSE "Failed")
  /\ UNCHANGED <<now, sessionVars, captureVars, stops, hist>>

\* Mutant: an entry is pushed whether or not the transcription succeeded.
Pushed_Always(d, ok) == d.sessionData # None

\* sessionData.transcriptions.push(transcriptionEntry) is reached and does not
\* throw: the transcription succeeded and sessionData is an object.
Pushed(d, ok) == ok /\ d.sessionData # None

\* await openai.audio.transcriptions.create settles;
\* sessionData.transcriptions.push(entry) throws on a null sessionData, and the
\* caller catches it: the transcription is lost.
TranscribeDone(d, ok) ==
  /\ d \in dispatches
  /\ d.pc = "transcribe"
  /\ dispatches' = dispatches \ {d}
  /\ UNCHANGED <<now, isRecording, recordingSession, connection, receiver,
                 captureVars, stops, hist>>
  /\ sessions' = IF Pushed(d, ok)
                 THEN [sessions EXCEPT ![d.sessionData].transcriptions =
                         Append(@, d.turn)]
                 ELSE sessions
  /\ last' = Event("transcribe", turns[d.turn].user,
                   IF ~ok THEN "Failed"
                   ELSE IF d.sessionData = None THEN "Lost" ELSE "Added")

\* ------------------------------------------------------------------ /stop
\* Mutant: the guard is missing.
StopRejected_Never == FALSE

\* if (!isRecording)
StopRejected == ~isRecording

\* interactionCreate, commandName 'stop', up to await interaction.reply.
\* recordingSession.templateChoice = ... throws on a null recordingSession.
StopCommand(auth) ==
  /\ UNCHANGED <<now, sessionVars, captureVars, dispatches, hist>>
  /\ IF ~auth THEN
       /\ last' = Event("stop", None, "Unauthorized")
       /\ UNCHANGED stops
     ELSE IF StopRejected THEN
       /\ last' = Event("stop", None, "NoActiveSession")
       /\ UNCHANGED stops
     ELSE IF recordingSession = None THEN
       /\ last' = Event("stop", None, "TypeError")
       /\ UNCHANGED stops
     ELSE
       /\ stops' = stops \cup {[h |-> FreshId({s.h : s \in stops}), pc |-> "reply"]}
       /\ last' = Event("stop", None, "Stopping")

\* The turns whose info object is in userStreams.
ActiveTurns == {userStreams[u] : u \in Users} \ {None}

\* for (const timer of endTimers.values()) clearTimeout(timer)
ClearAllTimers(ts) == {t \in ts : t.id \notin {endTimers[u] : u \in Users}}

\* await interaction.reply settles: isRecording = false, endTime, the streams in
\* userStreams are closed, the registered timers cleared, both maps cleared, the
\* connection destroyed; then the handler is suspended at await saveSessionToJson.
\* recordingSession.endTime = ... throws on a null recordingSession.
StopReplied(s) ==
  /\ s \in stops
  /\ s.pc = "reply"
  /\ isRecording' = FALSE
  /\ UNCHANGED <<now, recordingSession, starts, fires, dispatches, hist>>
  /\ IF recordingSession = None THEN
       /\ stops' = stops \ {s}
       /\ last' = Event("stopReplied", None, "TypeError")
       /\ UNCHANGED <<sessions, connection, receiver, userStreams, endTimers,
                      timers, turns>>
     ELSE
       /\ sessions' = [sessions EXCEPT ![recordingSession].endTime = now]
       /\ turns' = CloseStreams(turns, ActiveTurns)
       /\ timers' = ClearAllTimers(timers)
       /\ userStreams' = [u \in Users |-> None]
       /\ endTimers' = [u \in Users |-> None]
       /\ connection' = None
       /\ receiver' = None
       /\ stops' = (stops \ {s}) \cup {[s EXCEPT !.pc = "save"]}
       /\ last' = Event("stopReplied", None, "Stopped")

\* await saveSessionToJson(recordingSession) settles.  With transcriptions the
\* handler goes on to await generateSummary; otherwise, and when the session
\* object is gone (the TypeError is caught), it ends with recordingSession = null.
StopSaved(s) ==
  /\ s \in stops
  /\ s.pc = "save"
  /\ UNCHANGED <<now, isRecording, sessions, connection, receiver, captureVars,
                 dispatches, hist>>
  /\ IF recordingSession # None /\ Len(sessions[recordingSession].transcriptions) > 0
     THEN
       /\ stops' = (stops \ {s}) \cup {[s EXCEPT !.pc = "summary"]}
       /\ UNCHANGED recordingSession
       /\ last' = Event("stopSaved", None, "Summarizing")
     ELSE
       /\ stops' = stops \ {s}
       /\ recordingSession' = None
       /\ last' = Event("stopSaved", None, "Done")

\* generateSummary, writeFile and syncToNotion settle: recordingSession = null.
StopSummarized(s) ==
  /\ s \in stops
  /\ s.pc = "summary"
  /\ stops' = stops \ {s}
  /\ recordingSession' = None
  /\ last' = Event("stopSummarized", None, "Done")
  /\ UNCHANGED <<now, isRecording, sessions, connection, receiver, captureVars,
                 dispatches, hist>>

\* ------------------------------------------------------------------ clock
\* Time passes, by one tick, up to the horizon.  A timer that is due fires
\* before the clock moves on: the event loop runs a due callback at once.
Tick(limit) ==
  /\ now + TickMs <= limit * TickMs
  /\ \A t \in timers : t.deadline > now
  /\ now' = now + TickMs
  /\ last' = Event("tick", None, "ok")
  /\ UNCHANGED <<sessionVars, captureVars, dispatches, stops, hist>>

\* ------------------------------------------------------------------- Spec
Channels == {1, 2}

\* The bounds of a specification: the handlers the environment may still start.
StartBudget(u, maxTurns) ==
  \/ ~isRecording
  \/ AlreadyRecorded(u)
  \/ Len(turns) + Cardinality(starts) < maxTurns
RecordBudget(maxSessions) == isRecording \/ Len(sessions) < maxSessions
StopBudget(maxStops) == StopRejected \/ Cardinality(stops) < maxStops

\* The whole program, for the speakers `users`, within the bounds.
Program(users, maxSessions, maxTurns, maxStops, maxTicks) ==
  \/ \E auth \in BOOLEAN, ch \in Channels \cup {None} :
       RecordBudget(maxSessions) /\ RecordCommand(auth, ch)
  \/ ConnectionReady
  \/ \E u \in users : StartBudget(u, maxTurns) /\ SpeakingStart(u)
  \/ \E s \in starts, ok \in BOOLEAN : StartFetched(s, ok)
  \/ \E s \in starts, ok \in BOOLEAN : StartMkdirDone(s, ok)
  \/ \E u \in users : SpeakingEnd(u)
  \/ \E t \in timers : TimerFire(t)
  \/ \E f \in fires, ok \in BOOLEAN : FireFetched(f, ok)
  \/ \E d \in dispatches, ok \in BOOLEAN : ConvertDone(d, ok)
  \/ \E d \in dispatches, ok \in BOOLEAN : TranscribeDone(d, ok)
  \/ \E auth \in BOOLEAN : StopBudget(maxStops) /\ StopCommand(auth)
  \/ \E s \in stops : StopReplied(s)
  \/ \E s \in stops : StopSaved(s)
  \/ \E s \in stops : StopSummarized(s)
  \/ Tick(maxTicks)

\* Spec: one session and its speakers.
Next == Program(Users, MaxSessions, MaxTurns, MaxStops, MaxTicks)

Spec == Init /\ [][Next]_vars

\* ------------------------------------------------------------ SpecCommands
\* The commands and the speaking events that fall within one instant: no time
\* passes, so that no debounce timer comes due.
NextCommands ==
  \/ \E auth \in BOOLEAN, ch \in Channels \cup {None} :
       RecordBudget(CmdSessions) /\ RecordCommand(auth, ch)
  \/ ConnectionReady
  \/ \E u \in Users : StartBudget(u, CmdTurns) /\ SpeakingStart(u)
  \/ \E s \in starts, ok \in BOOLEAN : StartFetched(s, ok)
  \/ \E s \in starts, ok \in BOOLEAN : StartMkdirDone(s, ok)
  \/ \E u \in Users : SpeakingEnd(u)
  \/ \E auth \in BOOLEAN : StopBudget(CmdStops) /\ StopCommand(auth)
  \/ \E s \in stops : StopReplied(s)
  \/ \E s \in stops : StopSaved(s)

SpecCommands == Init /\ [][NextCommands]_vars

\* --------------------------------------------------------------- SpecSpeak
\* The speakers of a session that stays active: the state after /record and
\* Ready at time 0, then the speaking events, the timers and the awaits, each
\* of which may fail.
InitActive(h) ==
  /\ now = 0
  /\ isRecording = TRUE
  /\ recordingSession = 1
  /\ sessions = <<NewSession(1)>>
  /\ connection = 1
  /\ receiver = 1
  /\ userStreams = [u \in Users |-> None]
  /\ endTimers = [u \in Users |-> None]
  /\ timers = {}
  /\ turns = <<>>
  /\ starts = {}
  /\ fires = {}
  /\ dispatches = {}
  /\ stops = {}
  /\ hist = h
  /\ last = Event("ready", None, "ok")

SoloUser == CHOOSE u \in Users : \A v \in Users : u <= v

InitSpeak == InitActive([u \in Users |-> OffHist])

NextSpeak ==
  \/ \E u \in Users : StartBudget(u, SpeakTurns) /\ SpeakingStart(u)
  \/ \E s \in starts, ok \in BOOLEAN : StartFetched(s, ok)
  \/ \E s \in starts, ok \in BOOLEAN : StartMkdirDone(s, ok)
  \/ \E u \in Users : SpeakingEnd(u)
  \/ \E t \in timers : TimerFire(t)
  \/ \E f \in fires, ok \in BOOLEAN : FireFetched(f, ok)
  \/ Tick(SpeakTicks)

SpecSpeak == InitSpeak /\ [][NextSpeak]_vars

\* --------------------------------------------------------------- SpecSolo
\* One speaker in a session that stays active, every await succeeding: the
\* state after /record and Ready at time 0, then one burst of speaking events
\* (no quiet period between two events reaches DebounceMs).
InitSolo == InitActive([u \in Users |-> IF u = SoloUser THEN NoHist ELSE OffHist])

\* The user's burst is still open: the quiet period since the last event has
\* not reached the debounce constant.
BurstOpen(u) == hist[u].last = NoTime \/ now - hist[u].last < DebounceMs

NextSolo ==
  \/ BurstOpen(SoloUser) /\ StartBudget(SoloUser, SoloTurns) /\ SpeakingStart(SoloUser)
  \/ BurstOpen(SoloUser) /\ SpeakingEnd(SoloUser)
  \/ \E s \in starts : StartFetched(s, TRUE)
  \/ \E s \in starts : StartMkdirDone(s, TRUE)
  \/ \E t \in timers : TimerFire(t)
  \/ \E f \in fires : FireFetched(f, TRUE)
  \/ Tick(SoloTicks)

SpecSolo == InitSolo /\ [][NextSolo]_vars

\* ----------------------------------------------------------- SpecScenario
\* The scenario of the spec: the speaker speaks from 0 ms to 2000 ms, resumes at
\* 2500 ms and stops at 4000 ms; the awaits take any time.
Script ==
  << [kind |-> "start", at |-> 0], [kind |-> "end", at |-> 2 * DebounceMs],
     [kind |-> "start", at |-> 2 * DebounceMs + TickMs],
     [kind |-> "end", at |-> 4 * DebounceMs] >>

\* The position in Script of the next event, read off the time of the last one.
ScriptPos ==
  IF hist[SoloUser].last = NoTime THEN 1
  ELSE 1 + CHOOSE k \in 1..Len(Script) : Script[k].at = hist[SoloUser].last

ScriptDue(kind) ==
  /\ ScriptPos <= Len(Script)
  /\ Script[ScriptPos].kind = kind
  /\ Script[ScriptPos].at = now

NextScenario ==
  \/ ScriptDue("start") /\ StartBudget(SoloUser, SoloTurns) /\ SpeakingStart(SoloUser)
  \/ ScriptDue("end") /\ SpeakingEnd(SoloUser)
  \/ \E s \in starts : StartFetched(s, TRUE)
  \/ \E s \in starts : StartMkdirDone(s, TRUE)
  \/ \E t \in timers : TimerFire(t)
  \/ \E f \in fires : FireFetched(f, TRUE)
  \/ ~ScriptDue("start") /\ ~ScriptDue("end") /\ Tick(ScenTicks)

SpecScenario == InitSolo /\ [][NextScenario]_vars

\* --------------------------------------------------------------- SpecTurns
\* The Turns of one session from capture to dispatch: the speaking events, the
\* timers, the dispatches and the /stop of the authorized user, every await
\* settling either way.
NextTurns ==
  \/ \E u \in Users : StartBudget(u, TurnTurns) /\ SpeakingStart(u)
  \/ \E s \in starts, ok \in BOOLEAN : StartFetched(s, ok)
  \/ \E s \in starts, ok \in BOOLEAN : StartMkdirDone(s, ok)
  \/ \E u \in Users : SpeakingEnd(u)
  \/ \E t \in timers : TimerFire(t)
  \/ \E f \in fires, ok \in BOOLEAN : FireFetched(f, ok)
  \/ \E d \in dispatches, ok \in BOOLEAN : ConvertDone(d, ok)
  \/ \E d \in dispatches, ok \in BOOLEAN : TranscribeDone(d, ok)
  \/ StopBudget(TurnStops) /\ StopCommand(TRUE)
  \/ \E s \in stops : StopReplied(s)
  \/ \E s \in stops : StopSaved(s)
  \/ \E s \in stops : StopSummarized(s)
  \/ Tick(TurnTicks)

SpecTurns == InitSpeak /\ [][NextTurns]_vars

\* --------------------------------------------------------------- SpecRearm
\* One speaker who starts and stops speaking again and again, the finalize
\* step's await settling either way.
NextRearm ==
  \/ StartBudget(SoloUser, RearmTurns) /\ SpeakingStart(SoloUser)
  \/ \E s \in starts : StartFetched(s, TRUE)
  \/ \E s \in starts : StartMkdirDone(s, TRUE)
  \/ SpeakingEnd(SoloUser)
  \/ \E t \in timers : TimerFire(t)
  \/ \E f \in fires, ok \in BOOLEAN : FireFetched(f, ok)
  \/ Tick(RearmTicks)

SpecRearm == InitSpeak /\ [][NextRearm]_vars

\* ---------------------------------------------------------------- SpecLive
\* The speakers of a session that stays active, with the scheduling of the
\* event loop: the speaking events fall within LiveTicks ticks, the clock runs
\* on until the timers armed by then are due, a due timer fires and every await
\* settles.
LiveHorizon == LiveTicks * TickMs
LiveLimit == IF timers = {} THEN LiveTicks ELSE LiveTicks + DebounceMs \div TickMs

TimerFires == \E t \in timers : TimerFire(t)
FireSettles == \E f \in fires, ok \in BOOLEAN : FireFetched(f, ok)
FetchSettles == \E s \in starts, ok \in BOOLEAN : StartFetched(s, ok)
MkdirSettles == \E s \in starts, ok \in BOOLEAN : StartMkdirDone(s, ok)

NextLive ==
  \/ \E u \in Users :
       now <= LiveHorizon /\ StartBudget(u, LiveTurns) /\ SpeakingStart(u)
  \/ \E u \in Users : now <= LiveHorizon /\ SpeakingEnd(u)
  \/ FetchSettles
  \/ MkdirSettles
  \/ TimerFires
  \/ FireSettles
  \/ Tick(LiveLimit)

SpecLive ==
  /\ InitSpeak
  /\ [][NextLive]_vars
  /\ WF_vars(Tick(LiveLimit))
  /\ WF_vars(TimerFires)
  /\ WF_vars(FireSettles)
  /\ WF_vars(FetchSettles)
  /\ WF_vars(MkdirSettles)

\* ------------------------------------------------------------ SpecSessions
\* One session after another: the commands of the authorized and of other
\* users, overlapping /stop handlers, and one speaker whose Turn is captured,
\* finalized and dispatched while the sessions change.
NextSessions == Program({SoloUser}, SessSessions, SessTurns, SessStops, SessTicks)

SpecSessions == Init /\ [][NextSessions]_vars

\* ============================================================== properties
\* The Turn states of a speaker, read off the two maps.
Capturing(u) == userStreams[u] # None /\ endTimers[u] = None
EndPending(u) ==
  /\ userStreams[u] # None
  /\ \E t \in timers : t.id = endTimers[u]

\* The captures of a speaker whose write stream and opus subscription are open.
OpenCaptures(u) == {i \in TurnIds : turns[i].user = u /\ turns[i].open}

\* The turns a finalize step holds: closed by a fired timer and on their way to
\* the dispatcher, or queued for it.
InFinalize(ff, dd) == {f.turn : f \in ff} \cup {d.turn : d \in dd}

\* C1: at every reachable state at most one capture (one opus subscription and
\* one write sink) is open per speakerId, also when a second start for the
\* speaker arrives while an earlier start for it is still being set up.
C1_OneOpenCapturePerSpeaker ==
  \A u \in Users : Cardinality(OpenCaptures(u)) <= 1

\* C2: a /record issued by the authorized user while a session is active is
\* rejected with AlreadyRecording and leaves the session objects, the flag, the
\* active-Turn map, the timer registry and the pending timers unchanged; a
\* session object is only ever allocated while no session is active.
C2_RecordWhileActiveRejected ==
  [][/\ (last'.op = "record" /\ last'.res # "Unauthorized" /\ isRecording)
        => /\ last'.res = "AlreadyRecording"
           /\ UNCHANGED <<isRecording, recordingSession, sessions, connection,
                          receiver, userStreams, endTimers, timers, turns>>
     /\ Len(sessions') > Len(sessions) => ~isRecording]_vars

\* A /record was rejected while the session had a Turn in the map and a
\* debounce timer pending.
C2_Witness ==
  /\ last = Event("record", None, "AlreadyRecording")
  /\ isRecording
  /\ recordingSession # None
  /\ \E u \in Users : EndPending(u)

\* C3: a /stop issued by the authorized user while no session is active is
\* rejected with NoActiveSession and changes no state.
C3_StopWhileInactiveRejected ==
  [][(last'.op = "stop" /\ last'.res # "Unauthorized" /\ ~isRecording)
       => /\ last'.res = "NoActiveSession"
          /\ UNCHANGED <<now, sessionVars, captureVars, dispatches, stops, hist>>]_vars

\* A /stop was rejected after a session had been recorded and stopped.
C3_Witness ==
  /\ last = Event("stop", None, "NoActiveSession")
  /\ ~isRecording
  /\ Len(sessions) > 0

\* C4: the /stop that takes effect closes the sink of every Turn in the map and
\* hands each of them to the finalize path a fired timer uses (the Turn is held
\* by a finalize step or queued for dispatch).
C4_StopFinalizesActiveTurns ==
  [][(last'.op = "stopReplied" /\ last'.res = "Stopped")
       => \A i \in ActiveTurns :
            /\ ~turns'[i].open
            /\ i \in InFinalize(fires', dispatches')]_vars

\* C5: while no session is active, the active-Turn map and the timer registry
\* are empty, no debounce timer is pending and no capture is open.
C5_StopIsBarrier ==
  ~isRecording =>
    /\ \A u \in Users : userStreams[u] = None /\ endTimers[u] = None
    /\ timers = {}
    /\ \A u \in Users : OpenCaptures(u) = {}

\* C6: a start for a speaker whose Turn is EndPending (in the map, with its
\* registered timer pending) cancels that timer, leaves the Turn in the map
\* with its startTimestamp and its open sink, finalizes nothing and sets up no
\* new Turn.
C6_StartCancelsPendingEnd ==
  [][\A u \in Users :
       (last'.op = "start" /\ last'.user = u /\ isRecording /\ EndPending(u))
         => /\ \A t \in timers' : t.id # endTimers[u]
            /\ endTimers'[u] = None
            /\ userStreams'[u] = userStreams[u]
            /\ turns' = turns
            /\ UNCHANGED <<starts, fires, dispatches>>]_vars

\* A start arrived strictly after the end event and strictly before the
\* debounce period elapsed, and the Turn is Capturing again.
C6_Witness ==
  \E u \in Users :
    /\ last = Event("start", u, "Resumed")
    /\ Capturing(u)
    /\ turns[userStreams[u]].lastEnd < now
    /\ now < turns[userStreams[u]].lastEnd + DebounceMs

\* C9: a start for a speaker whose Turn is Capturing changes nothing: no Turn
\* or sink is set up and the Turn keeps its startTimestamp.
C9_StartWhileCapturingIsNoOp ==
  [][\A u \in Users :
       (last'.op = "start" /\ last'.user = u /\ isRecording /\ Capturing(u))
         => UNCHANGED <<now, sessionVars, captureVars, dispatches, stops>>]_vars

\* A start was received for a speaker already Capturing, later than the start
\* that created the Turn.
C9_Witness ==
  \E u \in Users :
    /\ last = Event("start", u, "Continued")
    /\ Capturing(u)
    /\ turns[userStreams[u]].startTime < now

\* C10: an end for a speaker with no Turn in the map arms no timer and leaves
\* the map, the registry, the pending timers and the session unchanged.
C10_EndWithoutTurnIsNoOp ==
  [][\A u \in Users :
       (last'.op = "end" /\ last'.user = u /\ userStreams[u] = None)
         => UNCHANGED <<now, sessionVars, captureVars, dispatches, stops>>]_vars

\* An end was ignored for a speaker whose start is still being set up.
C10_Witness ==
  \E u \in Users :
    /\ last = Event("end", u, "Ignored")
    /\ isRecording
    /\ \E s \in starts : s.user = u

\* The Turns of a speaker that were finalized and handed to the dispatcher.
Produced(u) == {i \in TurnIds : turns[i].user = u /\ turns[i].duration # NoTime}

\* The speaker's burst, which began with a start and closed with an end, is over
\* and every handler and timer has run.
BurstSettled(u) ==
  /\ hist[u].first # NoTime
  /\ hist[u].kind = "end"
  /\ now >= hist[u].last + DebounceMs
  /\ timers = {} /\ starts = {} /\ fires = {}

\* C7: for a burst of start/end events of one speaker (no quiet period reaches
\* the debounce constant) at most one Turn is produced, its startTimestamp is
\* the time of the first start, and once the burst is over and everything has
\* run exactly one Turn was produced.
C7_OneTurnPerBurst ==
  \A u \in Users :
    hist[u].kind # "off" =>
      /\ Cardinality(Produced(u)) <= 1
      /\ \A i \in Produced(u) : turns[i].startTime = hist[u].first
      /\ BurstSettled(u) => Cardinality(Produced(u)) = 1

\* C8: the duration reported for a finalized Turn runs from its capture start to
\* the last end of speech; in the scenario (start 0, last end 4000 ms) that is
\* 4000 ms.
C8_DurationIsSpeechTime ==
  \A i \in TurnIds :
    turns[i].duration # NoTime =>
      turns[i].duration = turns[i].lastEnd - turns[i].startTime

\* C11: speaking events are handled as if serialized: an end for a speaker
\* whose start was received before it (the Turn is in the map, or its start is
\* still being set up) leaves the speaker's Turn EndPending with a timer armed.
C11_EndAfterStartArmsTimer ==
  [][\A u \in Users :
       (/\ last'.op = "end" /\ last'.user = u /\ isRecording
        /\ (userStreams[u] # None \/ \E s \in starts : s.user = u))
         => /\ userStreams'[u] # None
            /\ \E t \in timers' : t.id = endTimers'[u]]_vars

\* The parts of the state that belong to speaker u: the map entries, the pending
\* timers, the Turn objects and the handlers suspended for the speaker.
SpeakerView(u) ==
  <<userStreams[u], endTimers[u], {t \in timers : t.user = u},
    [i \in {j \in TurnIds : turns[j].user = u} |-> turns[i]],
    {s \in starts : s.user = u}, {f \in fires : f.user = u},
    {d \in dispatches : turns[d.turn].user = u}>>

\* What the guards of a speaker's handlers read besides the speaker's own state.
SharedView == <<now, isRecording, receiver>>

\* C12: a step taken for speaker A (start, end, timer fire, a failed or
\* successful await of its capture, its finalize step or its dispatch) leaves
\* every other speaker B's Turn, startTimestamp, timers and suspended handlers
\* unchanged, and changes nothing the guards of B's handlers read.
C12_SpeakersIndependent ==
  [][\A a \in Users :
       last'.user = a =>
         /\ \A b \in Users \ {a} : SpeakerView(b)' = SpeakerView(b)
         /\ SharedView' = SharedView]_vars

\* A capture of speaker A failed while speaker B was EndPending, and B's timer
\* is still pending.
C12_Witness ==
  \E a \in Users, b \in Users :
    /\ a # b
    /\ last.user = a /\ last.res = "Failed"
    /\ EndPending(b)
    /\ turns[userStreams[b]].open

\* C13: a capture failure (at start or at finalize) is contained in its Turn:
\* the failing Turn is not in the map and is not dispatched, the session stays
\* active, and no other Turn's map entry or timer registration is removed.
C13_CaptureFailureContained ==
  [][(last'.op \in {"startFetched", "startDone", "fireFetched"} /\ last'.res = "Failed")
       => /\ UNCHANGED <<userStreams, endTimers, sessionVars, dispatches>>
          /\ \A i \in TurnIds : turns'[i] = turns[i]]_vars

\* C14: a failure inside dispatch (the conversion or the transcription fails, or
\* the push of the result throws) is caught: the step changes neither the
\* active-Turn map, the timer registry, the pending timers, the captures nor
\* the session and its turns, and the dispatch is dropped, not queued again.
C14_DispatchFailureCaught ==
  [][(last'.op \in {"convert", "transcribe"} /\ last'.res \in {"Failed", "Lost"})
       => /\ UNCHANGED <<sessionVars, captureVars, stops>>
          /\ \E d \in dispatches : dispatches' = dispatches \ {d}]_vars

\* A transcription failed while the session was active and a speaker's Turn
\* was EndPending.
C14_Witness ==
  /\ last.op = "transcribe" /\ last.res = "Failed"
  /\ isRecording
  /\ \E u \in Users : EndPending(u)

\* C15: once a finalize step has begun (the timer callback has closed its Turn
\* and removed it from the map), its continuation, error path included, acts on
\* that Turn only: it removes no Turn from the map and no timer from the
\* registry, so a newer Turn of the same speaker is left alone.
C15_FinalizeActsOnItsOwnTurn ==
  [][last'.op = "fireFetched" => UNCHANGED <<userStreams, endTimers>>]_vars

\* The turns recorded in a session.
Recorded(ss, k) == {ss[k].transcriptions[n] : n \in 1..Len(ss[k].transcriptions)}

\* C16: /stop does not discard dispatch work already launched: when the
\* transcription of a finalized Turn succeeds, also after the session was
\* stopped, the Turn is recorded in the session it was captured in.
C16_LaunchedDispatchIsRecorded ==
  [][\A d \in dispatches \ dispatches' :
       (last'.op = "transcribe" /\ last'.res # "Failed")
         => d.turn \in Recorded(sessions', turns[d.turn].session)]_vars

\* A finalized Turn of the speaker is with the dispatcher.
DispatchPending(u) == \E d \in dispatches : turns[d.turn].user = u

\* C17: a finalize step removes the Turn from the map before its dispatch is
\* launched: no Turn held by a finalize step or a dispatch is in the map; a
\* start for a speaker with a dispatch pending and no Turn in the map is
\* accepted (its setup begins, its timestamp not yet taken), and the Turn it
\* creates is a fresh object with its own startTimestamp.
C17_StartAcceptedWhileDispatchPending ==
  [][/\ \A i \in InFinalize(fires', dispatches'), u \in Users : userStreams'[u] # i
     /\ \A u \in Users :
          (/\ last'.op = "start" /\ last'.user = u /\ isRecording
           /\ userStreams[u] = None /\ DispatchPending(u))
            => /\ last'.res = "Setup"
               /\ \E s \in starts' \ starts : s.user = u /\ s.ts = NoTime
     /\ \A s \in starts \ starts' :
          (last'.op = "startDone" /\ last'.res = "Recording" /\ DispatchPending(s.user))
            => /\ userStreams'[s.user] \notin TurnIds
               /\ userStreams'[s.user] \notin InFinalize(fires', dispatches')
               /\ turns'[userStreams'[s.user]].startTime = s.ts
               /\ s.ts # NoTime]_vars

\* A fresh Turn was created for a speaker whose earlier Turn is still with the
\* dispatcher, with a later startTimestamp.
C17_Witness ==
  \E u \in Users, d \in dispatches :
    /\ last = Event("startDone", u, "Recording")
    /\ turns[d.turn].user = u
    /\ userStreams[u] \notin {None, d.turn}
    /\ turns[userStreams[u]].startTime > turns[d.turn].startTime

\* C18: at most one debounce timer is pending per speaker.
C18_OnePendingTimerPerSpeaker ==
  \A u \in Users : Cardinality({t \in timers : t.user = u}) <= 1

\* C20: a Turn is handed to the dispatcher once, with its sink closed and its
\* entry out of the map; every Turn in the map has its sink open, so that the
\* timer callback and /stop, which close the Turns they find in the map, never
\* close a sink a second time.
C20_OwnershipTransfer ==
  /\ \A i \in InFinalize(fires, dispatches) :
       /\ ~turns[i].open
       /\ \A u \in Users : userStreams[u] # i
       /\ Cardinality({f \in fires : f.turn = i}) +
            Cardinality({d \in dispatches : d.turn = i}) = 1
  /\ \A f \in fires : turns[f.turn].duration = NoTime
  /\ \A u \in Users : userStreams[u] # None => turns[userStreams[u]].open

\* /stop closed the sink of a Turn that was in the map while another Turn,
\* closed by its timer, was with the dispatcher.
C20_Witness ==
  /\ last = Event("stopReplied", None, "Stopped")
  /\ \E d \in dispatches, j \in TurnIds :
       /\ j # d.turn
       /\ ~turns[j].open
       /\ turns[j].duration = NoTime
       /\ j \notin InFinalize(fires, dispatches)
       /\ turns[j].lastEnd = NoTime

\* The Turn was finalized: its sink is closed, it is out of the map, no finalize
\* step holds it (it was dispatched, or its finalize step failed) and no timer
\* armed for it is pending.
Finalized(i) ==
  /\ i \in TurnIds
  /\ ~turns[i].open
  /\ userStreams[turns[i].user] # i
  /\ \A f \in fires : f.turn # i
  /\ \A t \in timers : t.turn # i

\* C19: a Turn that is EndPending is eventually finalized (Done or Failed, out
\* of the map, its timer gone), unless a start for its speaker arrives first.
C19_EndPendingIsFinalized ==
  \A u \in Users : \A i \in 1..LiveTurns :
    (EndPending(u) /\ userStreams[u] = i)
      ~> (Finalized(i) \/ (last.op = "start" /\ last.user = u))

\* C21: whenever the recording flag is set, the session record exists.
C21_ActiveSessionHasRecord ==
  isRecording => recordingSession # None

\* C22: a Turn's transcription is recorded only in the session the Turn was
\* captured in.
C22_RecordedInOwnSession ==
  \A k \in SessionIds : \A i \in Recorded(sessions, k) : turns[i].session = k

\* C23: a session is ended once: every /stop handler that resumes after its
\* reply performs the shutdown of a session that has not been ended yet (the
\* session record is in place and its endTime is not set).
C23_SessionEndedOnce ==
  [][last'.op = "stopReplied" =>
       /\ last'.res = "Stopped"
       /\ recordingSession # None
       /\ sessions[recordingSession].endTime = NoTime]_vars

\* C24: every speaker with a registered or pending debounce timer has a Turn in
\* the map, and every pending timer is the one registered for its speaker.
C24_TimersBelongToActiveTurns ==
  /\ \A u \in Users : endTimers[u] # None => userStreams[u] # None
  /\ \A t \in timers : userStreams[t.user] # None /\ endTimers[t.user] = t.id
====
